---- MODULE Spec2Model ----
(***************************************************************************)
(* QuickNotes sticky-notes board: the board controller (ui.js), the page   *)
(* bootstrap (main.js) and the Note / NoteManager they drive (notes.js).   *)
(*                                                                         *)
(* One state is the page between two event callbacks.  Every action is one *)
(* callback run to completion (the page is single threaded).               *)
(*                                                                         *)
(* Time stamps are ISO strings in the program; the model keeps the         *)
(* millisecond count an ISO string denotes, and Missing for an absent      *)
(* (undefined) field.  Date#getTime of an absent value is NaN.             *)
(***************************************************************************)
EXTENDS Integers, Sequences, FiniteSets, TLC

(* ------------------------------ bounds -------------------------------- *)
MaxNotes == 2        \* note identifiers in use during one page life
MaxElems == 3        \* note elements whose listeners can still act
MaxTime == 2         \* last clock value
MaxCoord == 3        \* largest pointer coordinate (clientX, clientY)
MaxPending == 2      \* quote fetches and error timers outstanding on the page
MaxReads == 2        \* file reads outstanding on the page
MaxSortLen == 3      \* longest array handed to the comparator sort
MaxStored == 2       \* most records found in storage at page load
BoardSize == 3       \* width and height of the board rectangle
SmallNote == 2       \* offsetWidth/offsetHeight of a note that fits the board
BoardOrigin == 1     \* left and top of the board rectangle

(* --------------------------- program constants ------------------------ *)
startX == 20
offsetY == 20
spacingY == 160

Missing == 0 - 1     \* an absent (undefined) property
noteBoard == 0       \* the #note-board element, as an event target
NoQuote == "none"
Idle == "idle"       \* glyph of a quote button at rest
Loading == "loading"
Failed == "error"

NoteIds == 1..MaxNotes
Times == 1..MaxTime
Coords == 0..MaxCoord
Urls == {"dataA", "dataB"}
Quotes == {"q1", "q2"}
LargeNote == BoardSize + 1
NoteSizes == {SmallNote, LargeNote}

VARIABLES
  pc,          \* "init" before DOMContentLoaded, "ready" after, "unloaded" at the end
  now,         \* the wall clock read by new Date()
  savedNotes,  \* main.js: const savedNotes = loadNotes()
  noteObj,     \* the Note objects still referenced, by id
  manager,     \* NoteManager: ids in insertion order
  board,       \* children of #note-board in document order, with the closure
               \* state of each one's listeners
  detached,    \* elements off the board whose listeners can still act
  geom,        \* layout: note offsetWidth / offsetHeight
  issued,      \* the highest note identifier in use so far
  handed       \* the call made to an external collaborator in this callback

vars == <<pc, now, savedNotes, noteObj, manager, board, detached, geom, issued, handed>>

(* ------------------------------ helpers ------------------------------- *)
Range(s) == {s[i] : i \in DOMAIN s}

Reverse(s) == [i \in DOMAIN s |-> s[Len(s) + 1 - i]]

Max(a, b) == IF a >= b THEN a ELSE b

Min(a, b) == IF a <= b THEN a ELSE b

(* JavaScript truthiness: of a time stamp (an ISO string, or absent) and   *)
(* of a text (the empty string is falsy).                                 *)
TruthyTime(t) == t # Missing

TruthyText(s) == s # ""

(* ------------------------- Note and NoteManager ----------------------- *)
(* notes.js: new Note(data).  Takes the record's fields as given; the     *)
(* quote starts absent.  Unknown properties of data are ignored.          *)
Note(data) ==
  [id |-> data.id, content |-> data.content, x |-> data.x, y |-> data.y,
   createdAt |-> data.createdAt, imageData |-> data.imageData, quote |-> NoQuote]

(* notes.js: createNote(attributes), a Note under an identifier that was  *)
(* never in use on this page.                                             *)
createNote(attrs, freshId) ==
  Note([id |-> freshId, content |-> attrs.content, x |-> attrs.x, y |-> attrs.y,
        createdAt |-> attrs.createdAt, imageData |-> attrs.imageData])

(* A move that builds the note again from its persisted attributes.       *)
updatePosition_rebuilt(n, x, y) == [n EXCEPT !.x = x, !.y = y, !.quote = NoQuote]

updatePosition(n, x, y) == [n EXCEPT !.x = x, !.y = y]

updateContent(n, text) == [n EXCEPT !.content = text]

(* One persisted record: { id, content, x, y, createdAt, imageData }.     *)
NoteToJSON(n) ==
  [id |-> n.id, content |-> n.content, x |-> n.x, y |-> n.y,
   createdAt |-> n.createdAt, imageData |-> n.imageData]

(* NoteManager.addNote: Map#set under the note's id.                      *)
addNote(mg, id) == IF id \in Range(mg) THEN mg ELSE Append(mg, id)

(* NoteManager.removeNote: Map#delete, a no-op for an absent id.          *)
removeNote(mg, id) == SelectSeq(mg, LAMBDA i : i # id)

(* NoteManager.getAllNotes: the notes in insertion order, a fresh array.  *)
getAllNotes(no, mg) == [i \in DOMAIN mg |-> no[mg[i]]]

(* NoteManager.toJSON: one record per note of the collection.             *)
toJSON(no, mg) == [i \in DOMAIN mg |-> NoteToJSON(no[mg[i]])]

(* ------------------------------ elements ------------------------------ *)
(* note.createElement() followed by the synchronous head of               *)
(* setupNoteEventListeners (ui.js 74-96): the closure variables and the   *)
(* image preview.  An element is known by its place on the board.         *)
NewElement(n) ==
  [note |-> n.id,
   isDragging |-> FALSE, dragOffsetX |-> Missing, dragOffsetY |-> Missing,
   fading |-> FALSE,
   quoteText |-> Idle, fetches |-> 0, timers |-> 0,
   previewSrc |-> IF TruthyText(n.imageData) THEN n.imageData ELSE "",
   reads |-> {}]

(* A callback of this element can still run: its document listener is     *)
(* armed, or a fetch, a timer or a file read is outstanding.              *)
Active(r) == r.isDragging \/ r.fetches > 0 \/ r.timers > 0 \/ r.reads # {}

(* The state an action leaves behind.  Elements off the board with no     *)
(* armed listener and nothing outstanding, and notes neither in the       *)
(* collection nor referenced by an element, are unreachable and dropped.  *)
Settle(no, mg, bd, dt) ==
  LET dt2 == SelectSeq(dt, Active)
      refd == Range(mg) \cup {r.note : r \in Range(bd) \cup Range(dt2)}
  IN /\ noteObj' = [i \in refd |-> no[i]]
     /\ manager' = mg
     /\ board' = bd
     /\ detached' = dt2

(* Every element whose listeners exist, in the order they were            *)
(* registered: the ones taken off the board, then the board's children.   *)
Elements == detached \o board

(* Element k of Elements is a child of the board.                         *)
Attached(k) == k > Len(detached)

(* Elements with element k replaced by r, split again.                    *)
BoardWith(k, r) == IF Attached(k) THEN [board EXCEPT ![k - Len(detached)] = r] ELSE board

DetachedWith(k, r) == IF Attached(k) THEN detached ELSE [detached EXCEPT ![k] = r]

NoCall == [to |-> "none", notes |-> <<>>]


(* ------------------------------- sorting ------------------------------ *)
(* A JavaScript number that may be NaN.                                   *)
Num(v) == [nan |-> FALSE, v |-> v]

NaN == [nan |-> TRUE, v |-> 0]

Minus(a, b) == IF a.nan \/ b.nan THEN NaN ELSE Num(a.v - b.v)

(* new Date(ts).getTime(): the millisecond count, NaN for undefined.      *)
getTime(ts) == IF ts = Missing THEN NaN ELSE Num(ts)

(* The comparator ignoring the requested order.                           *)
compareFn_ascOnly(a, b, order) ==
  Minus(getTime(a.createdAt), getTime(b.createdAt))

(* First copy of ui.js, lines 247-251.                                    *)
compareFn(a, b, order) ==
  LET dateA == getTime(a.createdAt)
      dateB == getTime(b.createdAt)
  IN IF order = "asc" THEN Minus(dateA, dateB) ELSE Minus(dateB, dateA)

(* Second copy of ui.js, lines 609-613: new Date(t || 0).getTime().  That *)
(* copy names the creation time `timestamp`.                              *)
compareFn2(a, b, order) ==
  LET dateA == getTime(IF TruthyTime(a.createdAt) THEN a.createdAt ELSE 0)
      dateB == getTime(IF TruthyTime(b.createdAt) THEN b.createdAt ELSE 0)
  IN IF order = "asc" THEN Minus(dateA, dateB) ELSE Minus(dateB, dateA)

(* ECMA-262 SortCompare: a NaN from the comparator counts as +0.          *)
SortCompare(copy, a, b, order) ==
  LET v == IF copy = 1 THEN compareFn(a, b, order) ELSE compareFn2(a, b, order)
  IN IF v.nan THEN 0 ELSE v.v

(* ECMA-262: the comparator is consistent on the values being sorted.     *)
ConsistentComparator(copy, arr, order) ==
  LET c(i, j) == SortCompare(copy, arr[i], arr[j], order)
      I == DOMAIN arr
  IN /\ \A i \in I : c(i, i) = 0
     /\ \A i, j \in I : c(i, j) = 0 => c(j, i) = 0
     /\ \A i, j, k \in I :
          /\ (c(i, j) = 0 /\ c(j, k) = 0) => c(i, k) = 0
          /\ (c(i, j) < 0 /\ c(j, k) < 0) => c(i, k) < 0
          /\ (c(i, j) > 0 /\ c(j, k) > 0) => c(i, k) > 0

(* The stable sort: an element goes after those that compare smaller and  *)
(* after the equal ones that came before it.                              *)
StableSort(copy, arr, order) ==
  LET c(i, j) == SortCompare(copy, arr[i], arr[j], order)
      I == DOMAIN arr
      rank(i) == 1 + Cardinality({j \in I : c(j, i) < 0 \/ (c(j, i) = 0 /\ j < i)})
  IN [k \in I |-> arr[CHOOSE i \in I : rank(i) = k]]

Reorderings(arr) ==
  LET I == DOMAIN arr
  IN {[k \in I |-> arr[p[k]]] : p \in {q \in [I -> I] : \A i \in I : \E k \in I : q[k] = i}}

(* Array.prototype.sort(comparefn): stable under a consistent comparator, *)
(* an implementation-defined order of the same elements otherwise.        *)
ArraySort(copy, arr, order) ==
  IF ConsistentComparator(copy, arr, order)
    THEN {StableSort(copy, arr, order)}
    ELSE Reorderings(arr)

(* ------------------------------- inputs ------------------------------- *)
Parts == {"self", "content", "delete", "quote", "imageBtn", "imageInput", "preview"}

(* What storage can hold for one note: a record of the persisted shape,   *)
(* one written without createdAt, and one carrying a `timestamp`.         *)
StoredVariants ==
  { [content |-> "memo", createdAt |-> 1, imageData |-> "dataA", timestamp |-> Missing],
    [content |-> "", createdAt |-> Missing, imageData |-> "", timestamp |-> Missing],
    [content |-> "old", createdAt |-> Missing, imageData |-> "", timestamp |-> 1] }

StoredRecord(i, v) ==
  [id |-> i, content |-> v.content, x |-> 1, y |-> 0,
   createdAt |-> v.createdAt, imageData |-> v.imageData, timestamp |-> v.timestamp]

StoredArrays ==
  UNION {{[i \in 1..n |-> StoredRecord(i, f[i])] : f \in [1..n -> StoredVariants]} :
         n \in 0..Min(MaxStored, MaxNotes)}

(* loadNotes(): null when nothing was saved, else the saved array.        *)
LoadResults ==
  {[present |-> FALSE, recs |-> <<>>]} \cup {[present |-> TRUE, recs |-> a] : a \in StoredArrays}

(* ------------------------------- initial ------------------------------ *)
InitWith(loads, sizes) ==
  /\ pc = "init"
  /\ now = 1
  /\ savedNotes \in loads
  /\ noteObj = <<>>
  /\ manager = <<>>
  /\ board = <<>>
  /\ detached = <<>>
  /\ geom \in {[w |-> z, h |-> z] : z \in sizes}
  /\ issued = 0
  /\ handed = NoCall

Init == InitWith(LoadResults, {SmallNote})

(* The clock moves on between callbacks.                                  *)
Tick ==
  /\ pc # "unloaded"
  /\ now < MaxTime
  /\ now' = now + 1
  /\ handed' = NoCall
  /\ UNCHANGED <<pc, savedNotes, noteObj, manager, board, detached, geom, issued>>

(* The handler giving a record without `timestamp` a fresh createdAt.     *)
Bootstrap_stampsCreatedAt ==
  /\ pc = "init"
  /\ LET recs == savedNotes.recs
         filled == [i \in DOMAIN recs |->
                      IF ~TruthyTime(recs[i].timestamp)
                        THEN [recs[i] EXCEPT !.createdAt = now]
                        ELSE recs[i]]
         no == [i \in DOMAIN recs |-> Note(filled[i])]
         mg == [i \in DOMAIN recs |-> i]
     IN /\ savedNotes' = [savedNotes EXCEPT !.recs = filled]
        /\ noteObj' = no
        /\ manager' = mg
        /\ board' = [i \in DOMAIN mg |-> [note |-> i, isDragging |-> FALSE,
                       dragOffsetX |-> Missing, dragOffsetY |-> Missing, fading |-> FALSE,
                       quoteText |-> Idle, fetches |-> 0, timers |-> 0,
                       previewSrc |-> no[i].imageData, reads |-> {}]]
        /\ detached' = <<>>
        /\ issued' = Len(recs)
  /\ pc' = "ready"
  /\ handed' = NoCall
  /\ UNCHANGED <<now, geom>>

(* ui.js 204-213: renderAllNotes, on the empty board of a fresh page.     *)
renderAllNotes(no, mg) == [i \in DOMAIN mg |-> NewElement(no[mg[i]])]

(* main.js 11-54: the DOMContentLoaded handler.                           *)
Bootstrap ==
  /\ pc = "init"
  /\ LET recs == savedNotes.recs
         filled == [i \in DOMAIN recs |->
                      IF ~TruthyTime(recs[i].timestamp)
                        THEN [recs[i] EXCEPT !.timestamp = now]
                        ELSE recs[i]]
         loaded == [i \in DOMAIN recs |-> Note(filled[i])]
         no == [id \in {loaded[i].id : i \in DOMAIN loaded} |->
                  loaded[CHOOSE i \in DOMAIN loaded :
                           loaded[i].id = id /\ \A j \in DOMAIN loaded : loaded[j].id = id => j <= i]]
         RECURSIVE AddAll(_, _)
         AddAll(mg, i) == IF i > Len(loaded) THEN mg ELSE AddAll(addNote(mg, loaded[i].id), i + 1)
         mg == AddAll(<<>>, 1)
     IN /\ Len(mg) <= MaxElems
        /\ savedNotes' = [savedNotes EXCEPT !.recs = filled]
        /\ issued' = Len(recs)
        /\ IF savedNotes.present
             THEN Settle(no, mg, renderAllNotes(no, mg), <<>>)
             ELSE UNCHANGED <<noteObj, manager, board, detached>>
  /\ pc' = "ready"
  /\ handed' = NoCall
  /\ UNCHANGED <<now, geom>>

(* ------------------------------ the board ----------------------------- *)
(* noteBoard.getBoundingClientRect()                                      *)
boardRect ==
  [left |-> BoardOrigin, top |-> BoardOrigin, width |-> BoardSize, height |-> BoardSize]

(* Pointer coordinates that lie on the board.                             *)
OnBoard == {c \in Coords : BoardOrigin <= c /\ c < BoardOrigin + BoardSize}

(* An event target: the board itself, or a part of a note element that is *)
(* on the board ("self" is the note element outside its controls).  A     *)
(* note element is named by its place among Elements.                     *)
Targets ==
  {<<noteBoard, "self">>} \cup ({k \in DOMAIN Elements : Attached(k)} \X Parts)

(* createNewNote keeping the pointer's window coordinates.                *)
createNewNote_clientCoords(x, y) ==
  LET id == issued + 1
      note == createNote([content |-> "", x |-> x, y |-> y,
                          createdAt |-> now, imageData |-> ""], id)
  IN /\ id \in NoteIds
     /\ Len(Elements) < MaxElems
     /\ issued' = id
     /\ Settle([i \in DOMAIN noteObj \cup {id} |-> IF i = id THEN note ELSE noteObj[i]],
               addNote(manager, id),
               Append(board, NewElement(note)),
               detached)

(* ui.js 43-69                                                            *)
createNewNote(x, y) ==
  LET boardX == x - boardRect.left
      boardY == y - boardRect.top
      createdAt == now
      id == issued + 1
      note == createNote([content |-> "", x |-> boardX, y |-> boardY,
                          createdAt |-> createdAt, imageData |-> ""], id)
  IN /\ id \in NoteIds
     /\ Len(Elements) < MaxElems
     /\ issued' = id
     /\ Settle([i \in DOMAIN noteObj \cup {id} |-> IF i = id THEN note ELSE noteObj[i]],
               addNote(manager, id),
               Append(board, NewElement(note)),
               detached)

(* The listener without its target test: any double click creates.       *)
DblClick_anyTarget(target, cx, cy) ==
  /\ pc = "ready"
  /\ createNewNote(cx, cy)
  /\ handed' = NoCall
  /\ UNCHANGED <<pc, now, savedNotes, geom>>

(* ui.js 19-23: the board's dblclick listener.                            *)
DblClick(target, cx, cy) ==
  /\ pc = "ready"
  /\ IF target[1] = noteBoard
       THEN createNewNote(cx, cy)
       ELSE UNCHANGED <<noteObj, manager, board, detached, issued>>
  /\ handed' = NoCall
  /\ UNCHANGED <<pc, now, savedNotes, geom>>

(* deleteNote removing the note at the click instead of at animationend.  *)
DeleteClick_eager(k) ==
  /\ pc = "ready"
  /\ k \in DOMAIN Elements /\ Attached(k)
  /\ Settle(noteObj, removeNote(manager, Elements[k].note),
            BoardWith(k, [Elements[k] EXCEPT !.fading = TRUE]), detached)
  /\ handed' = NoCall
  /\ UNCHANGED <<pc, now, savedNotes, geom, issued>>

(* ui.js 102-104 and 175-181: the delete button's click listener arms the *)
(* fade-out and the animationend listener.  A second click adds a second  *)
(* listener that repeats the same removal.                                *)
DeleteClick(k) ==
  /\ pc = "ready"
  /\ k \in DOMAIN Elements /\ Attached(k)
  /\ Settle(noteObj, manager, BoardWith(k, [Elements[k] EXCEPT !.fading = TRUE]), detached)
  /\ handed' = NoCall
  /\ UNCHANGED <<pc, now, savedNotes, geom, issued>>

(* ui.js 177-180: animationend on a fading element.  Only an element in   *)
(* the document is animated.                                              *)
AnimationEnd(k) ==
  /\ pc = "ready"
  /\ k \in DOMAIN Elements /\ Attached(k)
  /\ Elements[k].fading
  /\ LET i == k - Len(detached)
     IN Settle(noteObj,
               removeNote(manager, Elements[k].note),
               SubSeq(board, 1, i - 1) \o SubSeq(board, i + 1, Len(board)),
               Append(detached, Elements[k]))
  /\ handed' = NoCall
  /\ UNCHANGED <<pc, now, savedNotes, geom, issued>>

(* The sort without `noteBoard.innerHTML = ''`: the old elements stay.    *)
sortNotesByTimestamp_noClear(order) ==
  \E notes \in ArraySort(1, getAllNotes(noteObj, manager), order) :
    LET n == Len(notes)
        rankOf(id) == CHOOSE k \in 1..n : notes[k].id = id
        no == [i \in DOMAIN noteObj |->
                 IF i \in Range(manager)
                   THEN updatePosition(noteObj[i], startX, offsetY + spacingY * (rankOf(i) - 1))
                   ELSE noteObj[i]]
        rendered == [k \in 1..n |-> NewElement(no[notes[k].id])]
    IN Settle(no, manager, board \o rendered, detached)

(* ui.js 244-275: sortNotesByTimestamp of the first copy.                 *)
sortNotesByTimestamp(order) ==
  \E notes \in ArraySort(1, getAllNotes(noteObj, manager), order) :
    LET n == Len(notes)
        cleared == detached \o board
        rankOf(id) == CHOOSE k \in 1..n : notes[k].id = id
        no == [i \in DOMAIN noteObj |->
                 IF i \in Range(manager)
                   THEN updatePosition(noteObj[i], startX, offsetY + spacingY * (rankOf(i) - 1))
                   ELSE noteObj[i]]
        rendered == [k \in 1..n |-> NewElement(no[notes[k].id])]
    IN /\ Len(SelectSeq(cleared, Active)) + n <= MaxElems
       /\ Settle(no, manager, rendered, cleared)

SortClick(order) ==
  /\ pc = "ready"
  /\ sortNotesByTimestamp(order)
  /\ handed' = NoCall
  /\ UNCHANGED <<pc, now, savedNotes, geom, issued>>

(* ui.js 186-189                                                          *)
ExportClick ==
  /\ pc = "ready"
  /\ handed' = [to |-> "export", notes |-> toJSON(noteObj, manager)]
  /\ UNCHANGED <<pc, now, savedNotes, noteObj, manager, board, detached, geom, issued>>

(* An autosave that leaves out the notes being deleted.                   *)
AutoSave_skipsFading ==
  /\ pc = "ready"
  /\ handed' = [to |-> "save",
                notes |-> toJSON(noteObj,
                                 SelectSeq(manager, LAMBDA id :
                                   \A i \in DOMAIN board : board[i].note = id => ~board[i].fading))]
  /\ UNCHANGED <<pc, now, savedNotes, noteObj, manager, board, detached, geom, issued>>

(* ui.js 194-199: one tick of the autosave interval.                      *)
AutoSave ==
  /\ pc = "ready"
  /\ handed' = [to |-> "save", notes |-> toJSON(noteObj, manager)]
  /\ UNCHANGED <<pc, now, savedNotes, noteObj, manager, board, detached, geom, issued>>

(* main.js 42-45: the beforeunload listener; the page is gone afterwards. *)
Unload ==
  /\ pc = "ready"
  /\ pc' = "unloaded"
  /\ handed' = [to |-> "save", notes |-> toJSON(noteObj, manager)]
  /\ UNCHANGED <<now, savedNotes, noteObj, manager, board, detached, geom, issued>>

(* --------------------------- specifications --------------------------- *)
(* A double click on the empty board at a point of X x Y.                 *)
Create(X, Y) == \E cx \in X, cy \in Y : DblClick(<<noteBoard, "self">>, cx, cy)

(* A double click on a note, on its text or on its image; the handler     *)
(* reads no coordinate of it.                                             *)
DblClickNote ==
  \E t \in Targets :
    /\ t[1] # noteBoard /\ t[2] \in {"self", "content", "preview"}
    /\ DblClick(t, BoardOrigin, BoardOrigin)

Delete == \E k \in 1..MaxElems : DeleteClick(k)

Faded == \E k \in 1..MaxElems : AnimationEnd(k)

Sort == \E order \in {"asc", "desc"} : SortClick(order)

(* The page with its clock, its board controls and its saves.             *)
Next ==
  \/ Bootstrap
  \/ Tick
  \/ Create({BoardOrigin + 1}, {BoardOrigin})
  \/ DblClickNote
  \/ Delete
  \/ Faded
  \/ Sort
  \/ ExportClick
  \/ AutoSave
  \/ Unload

Spec == Init /\ [][Next]_vars


(* -------------------------------- drag -------------------------------- *)
(* The six controls of a note whose mousedown does not start a drag.      *)
NoDragParts == {"delete", "quote", "content", "imageBtn", "imageInput", "preview"}

(* noteElement.getBoundingClientRect() of a child of the board: the note  *)
(* is laid out at its position inside the board.                          *)
noteRect(r) ==
  [left |-> boardRect.left + noteObj[r.note].x, top |-> boardRect.top + noteObj[r.note].y]

(* offsetWidth / offsetHeight: the layout size of a child of the board,   *)
(* 0 for an element that is not in the document.                          *)
offsetWidth(k) == IF Attached(k) THEN geom.w ELSE 0

offsetHeight(k) == IF Attached(k) THEN geom.h ELSE 0

(* The mousedown listener without its early return: any part of the note  *)
(* starts a drag.                                                         *)
MouseDown_anyPart(k, part, ox, oy) ==
  /\ pc = "ready"
  /\ k \in DOMAIN Elements /\ Attached(k)
  /\ Settle(noteObj, manager,
            BoardWith(k, [Elements[k] EXCEPT !.isDragging = TRUE,
                                             !.dragOffsetX = ox, !.dragOffsetY = oy]),
            detached)
  /\ handed' = NoCall
  /\ UNCHANGED <<pc, now, savedNotes, geom, issued>>

(* ui.js 136-147: the note element's mousedown listener.  The pointer is  *)
(* (ox, oy) inside the element.                                           *)
MouseDown(k, part, ox, oy) ==
  /\ pc = "ready"
  /\ k \in DOMAIN Elements /\ Attached(k)
  /\ LET r == Elements[k]
         clientX == noteRect(r).left + ox
         clientY == noteRect(r).top + oy
         started == [r EXCEPT !.isDragging = TRUE,
                              !.dragOffsetX = clientX - noteRect(r).left,
                              !.dragOffsetY = clientY - noteRect(r).top]
     IN IF part \in NoDragParts
          THEN UNCHANGED <<noteObj, manager, board, detached>>
          ELSE Settle(noteObj, manager, BoardWith(k, started), detached)
  /\ handed' = NoCall
  /\ UNCHANGED <<pc, now, savedNotes, geom, issued>>

(* The clamp with its two bounds applied in the other order.              *)
dragTo_upperLast(k, clientX, clientY) ==
  LET r == Elements[k]
      newX == clientX - boardRect.left - r.dragOffsetX
      newY == clientY - boardRect.top - r.dragOffsetY
  IN [x |-> Min(Max(0, newX), boardRect.width - offsetWidth(k)),
      y |-> Min(Max(0, newY), boardRect.height - offsetHeight(k))]

(* ui.js 155-159: the position one listener computes for its note.        *)
dragTo(k, clientX, clientY) ==
  LET r == Elements[k]
      newX == clientX - boardRect.left - r.dragOffsetX
      newY == clientY - boardRect.top - r.dragOffsetY
  IN [x |-> Max(0, Min(newX, boardRect.width - offsetWidth(k))),
      y |-> Max(0, Min(newY, boardRect.height - offsetHeight(k)))]

(* ui.js 149-162: every element's document mousemove listener, in the     *)
(* order of registration.                                                 *)
RECURSIVE moveAll(_, _, _, _)
moveAll(no, k, clientX, clientY) ==
  IF k > Len(Elements) THEN no
  ELSE IF ~Elements[k].isDragging THEN moveAll(no, k + 1, clientX, clientY)
  ELSE LET to == dragTo(k, clientX, clientY)
           id == Elements[k].note
       IN moveAll([no EXCEPT ![id] = updatePosition(no[id], to.x, to.y)], k + 1, clientX, clientY)

(* One position kept for the whole board: a move places every note where  *)
(* the dragged one goes.                                                  *)
MouseMove_shared(clientX, clientY) ==
  /\ pc = "ready"
  /\ LET ks == {k \in DOMAIN Elements : Elements[k].isDragging}
         to == dragTo(CHOOSE k \in ks : TRUE, clientX, clientY)
     IN Settle(IF ks = {} THEN noteObj
               ELSE [id \in DOMAIN noteObj |-> updatePosition(noteObj[id], to.x, to.y)],
               manager, board, detached)
  /\ handed' = NoCall
  /\ UNCHANGED <<pc, now, savedNotes, geom, issued>>

MouseMove(clientX, clientY) ==
  /\ pc = "ready"
  /\ Settle(moveAll(noteObj, 1, clientX, clientY), manager, board, detached)
  /\ handed' = NoCall
  /\ UNCHANGED <<pc, now, savedNotes, geom, issued>>

(* ui.js 164-169: every element's document mouseup listener.  The offsets *)
(* are not read again before the next mousedown overwrites them.          *)
released(r) ==
  IF r.isDragging
    THEN [r EXCEPT !.isDragging = FALSE, !.dragOffsetX = Missing, !.dragOffsetY = Missing]
    ELSE r

(* The mouseup listener on the board instead of the document: elements    *)
(* off the board never hear it.                                           *)
MouseUp_boardOnly ==
  /\ pc = "ready"
  /\ Settle(noteObj, manager, [i \in DOMAIN board |-> released(board[i])], detached)
  /\ handed' = NoCall
  /\ UNCHANGED <<pc, now, savedNotes, geom, issued>>

MouseUp ==
  /\ pc = "ready"
  /\ Settle(noteObj, manager,
            [i \in DOMAIN board |-> released(board[i])],
            [i \in DOMAIN detached |-> released(detached[i])])
  /\ handed' = NoCall
  /\ UNCHANGED <<pc, now, savedNotes, geom, issued>>

(* A press on the left or the right edge of a note, along its top.        *)
Press ==
  \E k \in 1..MaxElems, part \in Parts :
    \E ox \in (IF part \in NoDragParts THEN {0} ELSE {0, geom.w - 1}) :
      MouseDown(k, part, ox, 0)

(* The pointer moves to the top left or the bottom right corner of the    *)
(* window.                                                                *)
Move == \E c \in {0, MaxCoord} : MouseMove(c, c)

(* A page with at most one stored note, notes that fit the board and      *)
(* notes that are larger than it.                                         *)
InitDrag ==
  InitWith({l \in LoadResults : l.present /\ Len(l.recs) <= 1 /\
              \A i \in DOMAIN l.recs : l.recs[i].createdAt # Missing}, NoteSizes)

NextDrag ==
  \/ Bootstrap
  \/ Create({BoardOrigin + 1}, {BoardOrigin})
  \/ Delete
  \/ Faded
  \/ Press
  \/ Move
  \/ MouseUp

SpecDrag == InitDrag /\ [][NextDrag]_vars


(* ------------------------------- quotes ------------------------------- *)
(* Fetches and error timers outstanding on the page.                      *)
RECURSIVE Outstanding(_)
Outstanding(els) ==
  IF els = <<>> THEN 0 ELSE Head(els).fetches + Head(els).timers + Outstanding(Tail(els))

(* ui.js 106-109: the quote button's click listener up to its await.  The *)
(* button is not disabled: it can be clicked again while it waits.        *)
QuoteClick(k) ==
  /\ pc = "ready"
  /\ k \in DOMAIN Elements /\ Attached(k)
  /\ Outstanding(Elements) < MaxPending
  /\ Settle(noteObj, manager,
            BoardWith(k, [Elements[k] EXCEPT !.quoteText = Loading, !.fetches = @ + 1]),
            detached)
  /\ handed' = NoCall
  /\ UNCHANGED <<pc, now, savedNotes, geom, issued>>

(* A completion that writes the quote through state shared by all notes.  *)
FetchOk_shared(k, q) ==
  /\ pc = "ready"
  /\ k \in DOMAIN Elements
  /\ Elements[k].fetches > 0
  /\ LET r == [Elements[k] EXCEPT !.quoteText = Idle, !.fetches = @ - 1]
     IN Settle([id \in DOMAIN noteObj |-> [noteObj[id] EXCEPT !.quote = q]], manager,
               BoardWith(k, r), DetachedWith(k, r))
  /\ handed' = NoCall
  /\ UNCHANGED <<pc, now, savedNotes, geom, issued>>

(* notes.js addRandomQuote resolving with quote q, then ui.js 110.        *)
FetchOk(k, q) ==
  /\ pc = "ready"
  /\ k \in DOMAIN Elements
  /\ Elements[k].fetches > 0
  /\ LET r == [Elements[k] EXCEPT !.quoteText = Idle, !.fetches = @ - 1]
         id == Elements[k].note
     IN Settle([noteObj EXCEPT ![id].quote = q], manager, BoardWith(k, r), DetachedWith(k, r))
  /\ handed' = NoCall
  /\ UNCHANGED <<pc, now, savedNotes, geom, issued>>

(* The catch block without its setTimeout: the error glyph is never taken *)
(* back.                                                                  *)
FetchFail_noTimer(k) ==
  /\ pc = "ready"
  /\ k \in DOMAIN Elements
  /\ Elements[k].fetches > 0
  /\ LET r == [Elements[k] EXCEPT !.quoteText = Failed, !.fetches = @ - 1]
     IN Settle(noteObj, manager, BoardWith(k, r), DetachedWith(k, r))
  /\ handed' = NoCall
  /\ UNCHANGED <<pc, now, savedNotes, geom, issued>>

(* notes.js addRandomQuote rejecting, then ui.js 111-115: the error glyph *)
(* and a 1500 ms timer.                                                   *)
FetchFail(k) ==
  /\ pc = "ready"
  /\ k \in DOMAIN Elements
  /\ Elements[k].fetches > 0
  /\ LET r == [Elements[k] EXCEPT !.quoteText = Failed, !.fetches = @ - 1, !.timers = @ + 1]
     IN Settle(noteObj, manager, BoardWith(k, r), DetachedWith(k, r))
  /\ handed' = NoCall
  /\ UNCHANGED <<pc, now, savedNotes, geom, issued>>

(* ui.js 113: the timer's callback.                                       *)
TimerFire(k) ==
  /\ pc = "ready"
  /\ k \in DOMAIN Elements
  /\ Elements[k].timers > 0
  /\ LET r == [Elements[k] EXCEPT !.quoteText = Idle, !.timers = @ - 1]
     IN Settle(noteObj, manager, BoardWith(k, r), DetachedWith(k, r))
  /\ handed' = NoCall
  /\ UNCHANGED <<pc, now, savedNotes, geom, issued>>

AskQuote == \E k \in 1..MaxElems : QuoteClick(k)

QuoteArrives == \E k \in 1..MaxElems, q \in Quotes : FetchOk(k, q)

QuoteFails == \E k \in 1..MaxElems : FetchFail(k)

ErrorShown == \E k \in 1..MaxElems : TimerFire(k)

(* A page with at most one stored note.                                   *)
InitSmall ==
  InitWith({l \in LoadResults : l.present /\ Len(l.recs) <= 1 /\
              \A i \in DOMAIN l.recs : l.recs[i].createdAt # Missing}, {SmallNote})

NextQuote ==
  \/ Bootstrap
  \/ Create({BoardOrigin + 1}, {BoardOrigin})
  \/ Delete
  \/ Faded
  \/ Sort
  \/ AskQuote
  \/ QuoteArrives
  \/ QuoteFails
  \/ ErrorShown

SpecQuote == InitSmall /\ [][NextQuote]_vars

(* ------------------------------- images ------------------------------- *)
(* imageInput.files after a selection: nothing, a text file, or an image  *)
(* file that reads as the data URL `data`.  A type is <<major, minor>>.   *)
Selections ==
  {<<>>, <<[type |-> <<"text", "plain">>, data |-> "dataA"]>>}
    \cup {<<[type |-> <<"image", "png">>, data |-> u]>> : u \in Urls}

(* file.type.startsWith('image/')                                         *)
IsImageType(type) == type[1] = "image"

(* File reads outstanding on the page.                                    *)
RECURSIVE Reading(_)
Reading(els) ==
  IF els = <<>> THEN 0 ELSE Cardinality(Head(els).reads) + Reading(Tail(els))

(* files[0] exists and is an image.                                       *)
ImageChosen(files) == IF files = <<>> THEN FALSE ELSE IsImageType(files[1].type)

(* The listener reading whatever file was selected.                       *)
ImageChange_anyType(k, files) ==
  /\ pc = "ready"
  /\ k \in DOMAIN Elements /\ Attached(k)
  /\ IF files # <<>>
       THEN Settle(noteObj, manager,
                   BoardWith(k, [Elements[k] EXCEPT !.reads = @ \cup {files[1].data}]),
                   detached)
       ELSE UNCHANGED <<noteObj, manager, board, detached>>
  /\ handed' = NoCall
  /\ UNCHANGED <<pc, now, savedNotes, geom, issued>>

(* ui.js 122-134: the image input's change listener; an image file starts *)
(* a FileReader.                                                          *)
ImageChange(k, files) ==
  /\ pc = "ready"
  /\ k \in DOMAIN Elements /\ Attached(k)
  /\ IF ImageChosen(files)
       THEN Settle(noteObj, manager,
                   BoardWith(k, [Elements[k] EXCEPT !.reads = @ \cup {files[1].data}]),
                   detached)
       ELSE UNCHANGED <<noteObj, manager, board, detached>>
  /\ handed' = NoCall
  /\ UNCHANGED <<pc, now, savedNotes, geom, issued>>

(* ui.js 126-131: reader.onload with the data URL of the file.            *)
ReadDone(k, dataUrl) ==
  /\ pc = "ready"
  /\ k \in DOMAIN Elements
  /\ dataUrl \in Elements[k].reads
  /\ LET r == [Elements[k] EXCEPT !.previewSrc = dataUrl, !.reads = @ \ {dataUrl}]
         id == Elements[k].note
     IN Settle([noteObj EXCEPT ![id].imageData = dataUrl], manager,
               BoardWith(k, r), DetachedWith(k, r))
  /\ handed' = NoCall
  /\ UNCHANGED <<pc, now, savedNotes, geom, issued>>

(* A FileReader that fails calls no listener of the page.                 *)
ReadFails(k, dataUrl) ==
  /\ pc = "ready"
  /\ k \in DOMAIN Elements
  /\ dataUrl \in Elements[k].reads
  /\ LET r == [Elements[k] EXCEPT !.reads = @ \ {dataUrl}]
     IN Settle(noteObj, manager, BoardWith(k, r), DetachedWith(k, r))
  /\ handed' = NoCall
  /\ UNCHANGED <<pc, now, savedNotes, geom, issued>>

SelectImage ==
  \E k \in 1..MaxElems, files \in Selections :
    ImageChosen(files) /\ Reading(Elements) < MaxReads /\ ImageChange(k, files)

SelectOther ==
  \E k \in 1..MaxElems, files \in Selections : ~ImageChosen(files) /\ ImageChange(k, files)

ImageRead == \E k \in 1..MaxElems, u \in Urls : ReadDone(k, u)

ImageLost == \E k \in 1..MaxElems, u \in Urls : ReadFails(k, u)

NextImage ==
  \/ Bootstrap
  \/ Create({BoardOrigin + 1}, {BoardOrigin})
  \/ Delete
  \/ Faded
  \/ SelectImage
  \/ SelectOther
  \/ ImageRead
  \/ ImageLost

SpecImage == InitSmall /\ [][NextImage]_vars


(* -------------------------- the sort by itself ------------------------- *)
(* Collections of up to MaxSortLen notes, inserted in the order of their  *)
(* ids, with every choice of createdAt among MaxSortLen instants or none, *)
(* on a page that has rendered them.                                      *)
SortInputs ==
  UNION {{[i \in 1..n |-> Note([id |-> i, content |-> "", x |-> 0, y |-> 0,
                                createdAt |-> t[i], imageData |-> ""])] :
            t \in [1..n -> (1..MaxSortLen) \cup {Missing}]} :
         n \in 0..Min(MaxSortLen, MaxElems)}

InitSort ==
  /\ pc = "ready"
  /\ now = MaxTime
  /\ savedNotes = [present |-> FALSE, recs |-> <<>>]
  /\ noteObj \in SortInputs
  /\ manager = [i \in DOMAIN noteObj |-> i]
  /\ board = renderAllNotes(noteObj, manager)
  /\ detached = <<>>
  /\ geom = [w |-> SmallNote, h |-> SmallNote]
  /\ issued = Len(manager)
  /\ handed = NoCall

NextSort == Sort

SpecSort == InitSort /\ [][NextSort]_vars


(* ------------------------------- claims ------------------------------- *)
IsPrefix(s, t) == Len(s) <= Len(t) /\ SubSeq(t, 1, Len(s)) = s

(* C1: a double click whose target is a note or lies inside one changes   *)
(* neither the collection nor the board; a double click on the board      *)
(* itself adds exactly one note to the collection and exactly one element *)
(* to the board, leaving the others in place.                             *)
C1_DoubleClick ==
  [][ /\ DblClickNote =>
          /\ manager' = manager
          /\ board' = board
          /\ noteObj' = noteObj
      /\ Create(OnBoard, OnBoard) =>
          /\ Len(manager') = Len(manager) + 1
          /\ IsPrefix(manager, manager')
          /\ Cardinality(Range(manager')) = Cardinality(Range(manager)) + 1
          /\ Len(board') = Len(board) + 1
          /\ IsPrefix(board, board')
          /\ board'[Len(board')].note = manager'[Len(manager')] ]_vars

(* A note was created by a double click next to a note that was loaded.   *)
C1_Witness ==
  /\ pc = "ready"
  /\ Len(savedNotes.recs) >= 1
  /\ Len(manager) > Len(savedNotes.recs)
  /\ Len(board) = Len(manager)

(* C2: a note whose element is fading on the board is in the collection; *)
(* the delete click removes nothing from the collection or the board; a   *)
(* note leaves the collection only in an animationend step.               *)
C2_DeleteOrder ==
  /\ [](\A i \in DOMAIN board : board[i].fading => board[i].note \in Range(manager))
  /\ [][ /\ Delete => (manager' = manager /\ Len(board') = Len(board))
         /\ ~(Range(manager) \subseteq Range(manager')) => Faded ]_vars

(* The delete control was clicked and the animation has not ended.        *)
C2_Witness ==
  \E i \in DOMAIN board : board[i].fading /\ board[i].note \in Range(manager)


(* C3 as stated: whatever the pointer, the board and the note size, a     *)
(* dragging listener passes updatePosition a position with                *)
(* 0 <= x <= boardWidth - noteWidth and 0 <= y <= boardHeight - noteHeight. *)
C3_Original ==
  \A k \in DOMAIN Elements : Elements[k].isDragging =>
    \A cx \in Coords, cy \in Coords :
      LET p == dragTo(k, cx, cy)
      IN /\ 0 <= p.x /\ p.x <= boardRect.width - geom.w
         /\ 0 <= p.y /\ p.y <= boardRect.height - geom.h

(* C3 amended: the position passed to updatePosition has                  *)
(* 0 <= x <= max(0, boardWidth - w) and 0 <= y <= max(0, boardHeight - h), *)
(* w and h being the dragged element's offsetWidth and offsetHeight at    *)
(* the move (0 once the element is off the board); the stated bounds hold *)
(* when the element is on the board and the note is not larger than it.   *)
C3_Clamped ==
  \A k \in DOMAIN Elements : Elements[k].isDragging =>
    \A cx \in Coords, cy \in Coords :
      LET p == dragTo(k, cx, cy)
      IN /\ 0 <= p.x /\ p.x <= Max(0, boardRect.width - offsetWidth(k))
         /\ 0 <= p.y /\ p.y <= Max(0, boardRect.height - offsetHeight(k))
         /\ (Attached(k) /\ geom.w <= boardRect.width /\ geom.h <= boardRect.height) =>
              (p.x <= boardRect.width - geom.w /\ p.y <= boardRect.height - geom.h)

(* A note that fits the board has been dragged into the bottom right      *)
(* corner and is still held.                                              *)
C3_Witness ==
  \E k \in DOMAIN Elements :
    /\ Elements[k].isDragging /\ Attached(k)
    /\ geom.w < boardRect.width
    /\ noteObj[Elements[k].note].x = boardRect.width - geom.w
    /\ noteObj[Elements[k].note].y = boardRect.height - geom.h


(* The ids of the notes shown on the board, first child first.            *)
BoardIds == [k \in DOMAIN board |-> board[k].note]

(* The board orders a sort of the present collection can produce.         *)
BoardOrderAfter(copy, order) ==
  {[k \in DOMAIN s |-> s[k].id] : s \in ArraySort(copy, getAllNotes(noteObj, manager), order)}

DistinctCreatedAt ==
  /\ \A i \in Range(manager) : noteObj[i].createdAt # Missing
  /\ \A i, j \in Range(manager) : i # j => noteObj[i].createdAt # noteObj[j].createdAt

(* C4: when the notes' createdAt values are pairwise distinct, the board  *)
(* an ascending sort leaves is the reverse of the board a descending sort *)
(* of the same collection leaves, and the other way round; the comparator *)
(* of the second copy orders the collection the same way.                 *)
C4_Reversal ==
  /\ [](DistinctCreatedAt =>
          \A copy \in {1, 2} :
            \A a \in BoardOrderAfter(copy, "asc"), d \in BoardOrderAfter(copy, "desc") :
              a = Reverse(d))
  /\ [][ DistinctCreatedAt =>
           /\ SortClick("asc") =>
                \A d \in BoardOrderAfter(1, "desc") : BoardIds' = Reverse(d)
           /\ SortClick("desc") =>
                \A a \in BoardOrderAfter(1, "asc") : BoardIds' = Reverse(a) ]_vars

(* Three notes with distinct createdAt stand in the stack a sort leaves,  *)
(* newest first, which is not the order they were inserted in.            *)
C4_Witness ==
  /\ Len(board) >= 3
  /\ DistinctCreatedAt
  /\ \A k \in DOMAIN board :
       /\ noteObj[board[k].note].x = startX
       /\ noteObj[board[k].note].y = offsetY + spacingY * (k - 1)
  /\ \A k \in 1..(Len(board) - 1) :
       noteObj[board[k].note].createdAt > noteObj[board[k + 1].note].createdAt
  /\ BoardIds # manager

ExactlyOneMissing ==
  /\ Len(manager) >= 2
  /\ Cardinality({i \in Range(manager) : noteObj[i].createdAt = Missing}) = 1

TheMissing == CHOOSE i \in Range(manager) : noteObj[i].createdAt = Missing

(* C5: when exactly one note has no createdAt, a sort puts it where a     *)
(* note with createdAt = 0 would go: first on the board after an          *)
(* ascending sort and last after a descending one.                        *)
C5_MissingFirst ==
  [][ ExactlyOneMissing =>
        /\ SortClick("asc") => BoardIds'[1] = TheMissing
        /\ SortClick("desc") => BoardIds'[Len(board')] = TheMissing ]_vars

(* The comparator of the second copy (t || 0) does what C5 states.        *)
C5_SecondCopy ==
  ExactlyOneMissing =>
    /\ \A a \in BoardOrderAfter(2, "asc") : a[1] = TheMissing
    /\ \A d \in BoardOrderAfter(2, "desc") : d[Len(d)] = TheMissing


PersistedFields == {"id", "content", "x", "y", "createdAt", "imageData"}

(* Record out carries the six persisted fields, with the values of rec.   *)
SameRecord(out, rec) ==
  /\ DOMAIN out = PersistedFields
  /\ \A f \in PersistedFields : out[f] = rec[f]

C7_CreatedAtPresent ==
  pc = "ready" => \A id \in Range(manager) : noteObj[id].createdAt # Missing

(* What main.js does instead: a loaded note has the createdAt of its      *)
(* record, present or not; the backfill lands on `timestamp`.             *)
C7_CreatedAtKept ==
  [][ Bootstrap =>
        /\ \A i \in DOMAIN savedNotes.recs :
             /\ noteObj'[savedNotes.recs[i].id].createdAt = savedNotes.recs[i].createdAt
             /\ savedNotes'.recs[i].timestamp # Missing ]_vars

C8_ImageSelect ==
  [][ /\ SelectOther =>
          /\ noteObj' = noteObj
          /\ board' = board
          /\ detached' = detached
      /\ \A k \in DOMAIN Elements, u \in Urls :
           ReadDone(k, u) =>
             /\ Elements[k].note \in DOMAIN noteObj' =>
                  noteObj'[Elements[k].note].imageData = u
             /\ Attached(k) => board'[k - Len(detached)].previewSrc = u ]_vars

(* A note of the collection shows and stores an image that only a         *)
(* completed read can have given it.                                      *)
C8_Witness ==
  \E i \in DOMAIN board :
    /\ board[i].previewSrc = "dataB"
    /\ board[i].note \in Range(manager)
    /\ noteObj[board[i].note].imageData = "dataB"

(* C10: a quote button with a fetch outstanding shows the loading glyph,  *)
(* also when it was clicked again before an earlier fetch or error timer  *)
(* finished; a button on the board leaves the loading or error glyph only *)
(* when a fetch succeeds or an error timer fires (or a sort renders the   *)
(* board anew).                                                           *)
C10_LoadingWhilePending ==
  /\ [](\A k \in DOMAIN Elements :
          Elements[k].fetches > 0 => Elements[k].quoteText = Loading)
  /\ [][ (BoardIds' = BoardIds /\
          \E i \in DOMAIN board : board[i].quoteText # Idle /\ board'[i].quoteText = Idle)
           => (QuoteArrives \/ ErrorShown \/ Sort) ]_vars

(* ------------------------------ creation ------------------------------ *)
(* A page where notes are created at any column of the board's two top    *)
(* rows, at different times, and then saved or exported.                  *)
NextCreate ==
  \/ Bootstrap
  \/ Tick
  \/ Create(OnBoard, {BoardOrigin, BoardOrigin + 1})
  \/ ExportClick
  \/ AutoSave

SpecCreate == InitSmall /\ [][NextCreate]_vars

(* C11: a double click on the board at (cx, cy) adds a note with          *)
(* x = cx - boardRect.left, y = cy - boardRect.top, empty content, empty  *)
(* imageData and createdAt the time of the click; its serialized record   *)
(* carries the same x, y and content.                                     *)
C11_CreatedAt ==
  [][ \A cx \in OnBoard, cy \in OnBoard :
        DblClick(<<noteBoard, "self">>, cx, cy) =>
          LET id == manager'[Len(manager')]
              n == noteObj'[id]
              rec == toJSON(noteObj', manager')[Len(manager')]
          IN /\ id \notin DOMAIN noteObj
             /\ n.x = cx - boardRect.left /\ n.y = cy - boardRect.top
             /\ n.content = "" /\ n.imageData = ""
             /\ n.createdAt = now /\ n.createdAt # Missing
             /\ rec.id = id /\ rec.x = n.x /\ rec.y = n.y /\ rec.content = "" ]_vars

(* A note created at the board's right edge, one row down, at the second  *)
(* instant, has been exported.                                            *)
C11_Witness ==
  /\ handed.to = "export"
  /\ \E i \in DOMAIN handed.notes :
       /\ handed.notes[i].id > Len(savedNotes.recs)
       /\ handed.notes[i].x = BoardSize - 1 /\ handed.notes[i].y = 1
       /\ handed.notes[i].content = "" /\ handed.notes[i].createdAt = 2

(* ---------------------- the sort of the second copy -------------------- *)
(* ui.js 604-624 (second copy): the same clearing and rendering in sorted *)
(* order, with no call of updatePosition.                                 *)
sortNotesByTimestamp2(order) ==
  \E notes \in ArraySort(2, getAllNotes(noteObj, manager), order) :
    LET n == Len(notes)
        cleared == detached \o board
        rendered == [k \in 1..n |-> NewElement(noteObj[notes[k].id])]
    IN /\ Len(SelectSeq(cleared, Active)) + n <= MaxElems
       /\ Settle(noteObj, manager, rendered, cleared)

SortClick2(order) ==
  /\ pc = "ready"
  /\ sortNotesByTimestamp2(order)
  /\ handed' = NoCall
  /\ UNCHANGED <<pc, now, savedNotes, geom, issued>>

Sort2 == \E order \in {"asc", "desc"} : SortClick2(order)

(* The sort buttons of either copy, on a page that has rendered its notes. *)
NextSortBoth ==
  \/ Sort
  \/ Sort2

SpecSortBoth == InitSort /\ [][NextSortBoth]_vars

(* The notes on the board stand in the stack: x = 20, y = 20 + 160 k for  *)
(* the note at rank k = 0, 1, ...                                         *)
StackLayout ==
  \A k \in DOMAIN board :
    /\ noteObj[board[k].note].x = startX
    /\ noteObj[board[k].note].y = offsetY + spacingY * (k - 1)

(* The board runs from the newest note to the oldest.                     *)
NewestFirst ==
  \A k \in 1..(Len(board) - 1) :
    noteObj[board[k].note].createdAt > noteObj[board[k + 1].note].createdAt

(* C12: a sort leaves the note at rank k of the board at x = 20,          *)
(* y = 20 + 160 k; a descending sort of notes with distinct createdAt     *)
(* leaves the board newest first.                                         *)
C12_StackAfterSort ==
  [][ /\ (Sort \/ Sort2) => (Len(board') = Len(manager) /\ StackLayout')
      /\ (DistinctCreatedAt /\ (SortClick("desc") \/ SortClick2("desc"))) => NewestFirst' ]_vars

(* The sort of the first copy does what C12 states.                       *)
C12_FirstCopy ==
  [][ /\ Sort => (Len(board') = Len(manager) /\ StackLayout')
      /\ (DistinctCreatedAt /\ SortClick("desc")) => NewestFirst' ]_vars

(* ------------------------------- layout ------------------------------- *)
(* A page whose notes fit the board: notes are created at any column of   *)
(* the board's top row, dragged and sorted.                               *)
NextLayout ==
  \/ Bootstrap
  \/ Create(OnBoard, {BoardOrigin})
  \/ Sort
  \/ Press
  \/ Move
  \/ MouseUp

SpecLayout == InitSmall /\ [][NextLayout]_vars

(* C13: every note of the collection lies inside the board:               *)
(* 0 <= x <= boardWidth - noteWidth and 0 <= y <= boardHeight - noteHeight. *)
C13_InsideBoard ==
  \A id \in Range(manager) :
    /\ 0 <= noteObj[id].x /\ noteObj[id].x <= boardRect.width - geom.w
    /\ 0 <= noteObj[id].y /\ noteObj[id].y <= boardRect.height - geom.h

(* ------------------------- notes and elements ------------------------- *)
(* C14: between callbacks each note of the collection has exactly one     *)
(* element on the board and each element on the board shows a note of the *)
(* collection, no two the same one.                                       *)
C14_OneToOne ==
  /\ Len(board) = Len(manager)
  /\ \A id \in Range(manager) :
       Cardinality({k \in DOMAIN board : board[k].note = id}) = 1
  /\ \A k \in DOMAIN board : board[k].note \in Range(manager)
  /\ Cardinality(Range(manager)) = Len(manager)

(* Two notes, one of them fading, on a board that a sort has rendered in  *)
(* another order than the collection's.                                   *)
C14_Witness ==
  /\ Len(manager) >= 2
  /\ BoardIds # manager
  /\ \E k \in DOMAIN board : board[k].fading

(* ------------------------------ dragging ------------------------------ *)
(* The elements whose isDragging is set.                                  *)
Dragging == {k \in DOMAIN Elements : Elements[k].isDragging}

(* The notes whose position an action changes.                            *)
Moved == {id \in DOMAIN noteObj \cap DOMAIN noteObj' :
            noteObj'[id].x # noteObj[id].x \/ noteObj'[id].y # noteObj[id].y}

(* C15: at most one element has its drag flag set, and a mousemove        *)
(* changes the position of at most one note.                              *)
C15_OneDragging ==
  /\ [](Cardinality(Dragging) <= 1)
  /\ [][Move => Cardinality(Moved) <= 1]_vars

(* What the listeners do instead: the number of dragging elements grows   *)
(* beyond one only by a mousedown that arrives while an element is        *)
(* already dragging.                                                      *)
C15_OnlyBySecondPress ==
  [][ (Cardinality(Dragging) <= 1 /\ Cardinality(Dragging') > 1)
        => (Press /\ Cardinality(Dragging) = 1) ]_vars

(* A page that found nothing in storage.                                  *)
InitFresh == InitWith({[present |-> FALSE, recs |-> <<>>]}, {SmallNote})

(* The pointer on such a page, whose notes fit the board: notes are       *)
(* created and deleted, pressed on any of their parts, and the pointer    *)
(* moves and is released.                                                 *)
NextPointer ==
  \/ Bootstrap
  \/ Create({BoardOrigin + 1}, {BoardOrigin})
  \/ Delete
  \/ Faded
  \/ Press
  \/ Move
  \/ MouseUp

SpecPointer == InitFresh /\ [][NextPointer]_vars

(* C16: a mouseup leaves no element dragging; an element starts dragging  *)
(* only by a mousedown and stops only by a mouseup; a mousemove changes   *)
(* the position of a note only if an element of that note is dragging,    *)
(* so none between a mouseup and the next mousedown.                      *)
C16_DragProtocol ==
  [][ /\ Dragging' # {} => ~MouseUp
      /\ Cardinality(Dragging') > Cardinality(Dragging) => Press
      /\ Cardinality(Dragging') < Cardinality(Dragging) => MouseUp
      /\ (\E id \in Moved : \A k \in Dragging : Elements[k].note # id) => ~Move
      /\ (Dragging = {} /\ noteObj' # noteObj) => ~Move ]_vars

(* A note that fits the board was dragged into the bottom right corner    *)
(* and released.                                                          *)
C16_Witness ==
  /\ Dragging = {}
  /\ geom.w < boardRect.width
  /\ \E id \in Range(manager) :
       /\ noteObj[id].x = boardRect.width - geom.w
       /\ noteObj[id].y = boardRect.height - geom.h

(* A page with at most one stored note and no delete control in use:      *)
(* notes are created, pressed on any of their parts, moved and released.  *)
NextPress ==
  \/ Bootstrap
  \/ Create({BoardOrigin + 1}, {BoardOrigin})
  \/ Press
  \/ Move
  \/ MouseUp

SpecPress == InitSmall /\ [][NextPress]_vars

(* A mousedown on one of the six controls of a note.                      *)
PressControl ==
  \E k \in 1..MaxElems, part \in NoDragParts : MouseDown(k, part, 0, 0)

(* C17: a mousedown on the delete button, the quote button, the content   *)
(* area, the image button, the image input or the image preview changes   *)
(* no element and no note, so it starts no drag; a mousedown elsewhere on *)
(* a note, (ox, oy) from its top left corner, sets the element dragging   *)
(* with dragOffsetX = ox and dragOffsetY = oy.                            *)
C17_DragStart ==
  [][ /\ (board' # board \/ detached' # detached \/ noteObj' # noteObj) => ~PressControl
      /\ \A k \in DOMAIN Elements, ox \in 0..(geom.w - 1) :
           MouseDown(k, "self", ox, 0) =>
             /\ Elements'[k].isDragging
             /\ Elements'[k].dragOffsetX = ox
             /\ Elements'[k].dragOffsetY = 0 ]_vars

(* A note on the board is held by its right edge while another one is     *)
(* idle.                                                                  *)
C17_Witness ==
  /\ \E k \in DOMAIN Elements :
       /\ Attached(k) /\ Elements[k].isDragging
       /\ Elements[k].dragOffsetX = geom.w - 1 /\ Elements[k].dragOffsetY = 0
  /\ \E k \in DOMAIN Elements : Attached(k) /\ ~Elements[k].isDragging

(* --------------------------- quotes, in time --------------------------- *)
(* The quote controls of a page that found nothing in storage.  Every     *)
(* fetch settles and every timer fires: the promise of addRandomQuote is  *)
(* taken to resolve or reject, and the event loop runs due timers.        *)
NextQuoteLive ==
  \/ Bootstrap
  \/ Create({BoardOrigin + 1}, {BoardOrigin})
  \/ AskQuote
  \/ QuoteArrives
  \/ QuoteFails
  \/ ErrorShown

FetchSettles(k) == (\E q \in Quotes : FetchOk(k, q)) \/ FetchFail(k)

SpecQuoteLive ==
  /\ InitFresh
  /\ [][NextQuoteLive]_vars
  /\ \A k \in 1..MaxElems : WF_vars(FetchSettles(k)) /\ WF_vars(TimerFire(k))

(* The quote button of note id shows the loading or the error glyph.      *)
Busy(id) ==
  \E k \in DOMAIN Elements : Elements[k].note = id /\ Elements[k].quoteText # Idle

(* What the quote buttons of each note show.                              *)
Glyphs ==
  [id \in NoteIds |-> {Elements[k].quoteText : k \in {j \in DOMAIN Elements : Elements[j].note = id}}]

(* The quote buttons with no fetch and no error timer outstanding.        *)
Quiet == {k \in DOMAIN Elements : Elements[k].fetches = 0 /\ Elements[k].timers = 0}

(* C18: a quote button showing the loading or the error glyph shows the   *)
(* idle glyph again later; a button with no fetch and no error timer      *)
(* outstanding shows the idle glyph, and the glyphs change only by a      *)
(* click, a fetch that settles or an error timer.                         *)
C18_ReturnsToIdle ==
  /\ \A id \in NoteIds : Busy(id) ~> ~Busy(id)
  /\ [](\A k \in Quiet : Elements[k].quoteText = Idle)
  /\ [][ (\E id \in NoteIds : Glyphs'[id] # {} /\ Glyphs[id] # {} /\ Glyphs'[id] # Glyphs[id])
          => (AskQuote \/ QuoteArrives \/ QuoteFails \/ ErrorShown) ]_vars

(* A fetch has failed and its button shows the error glyph until the      *)
(* timer fires.                                                           *)
C18_Witness ==
  \E k \in DOMAIN Elements :
    /\ Attached(k) /\ Elements[k].quoteText = Failed
    /\ Elements[k].timers = 1 /\ Elements[k].fetches = 0

(* ------------------------- completions, late -------------------------- *)
(* Fetches, timers and file reads outstanding on the page.                *)
PendingAll == Outstanding(Elements) + Reading(Elements)

(* The one quote and the one image file of this part.                     *)
TheQuote == "q1"

TheImage == <<[type |-> <<"image", "png">>, data |-> "dataA"]>>

AskQuoteSome == PendingAll < MaxPending /\ AskQuote

SelectImageSome == PendingAll < MaxPending /\ \E k \in 1..MaxElems : ImageChange(k, TheImage)

QuoteLate == \E k \in 1..MaxElems : FetchOk(k, TheQuote)

ImageLate == \E k \in 1..MaxElems : ReadDone(k, TheImage[1].data)

(* Notes are created and deleted while quote fetches and file reads are   *)
(* pending, and the collection is saved and exported.                     *)
NextStale ==
  \/ Bootstrap
  \/ Create({BoardOrigin + 1}, {BoardOrigin})
  \/ Delete
  \/ Faded
  \/ AskQuoteSome
  \/ QuoteLate
  \/ SelectImageSome
  \/ ImageLate
  \/ ExportClick
  \/ AutoSave

SpecStale == InitFresh /\ [][NextStale]_vars

(* Element k belongs to a note that is no longer in the collection.       *)
Orphan(k) == Elements[k].note \notin Range(manager)

(* The fetch or the file read of element k completes.                     *)
Completes(k) == (\E q \in Quotes : FetchOk(k, q)) \/ (\E u \in Urls : ReadDone(k, u))

(* The notes that were in the collection and have been removed from it.   *)
Removed == (1..issued) \ Range(manager)

(* C19: a quote fetch or a file read that completes for a note no longer  *)
(* in the collection leaves the collection and every other note object as *)
(* they were, and no save or export contains a removed note.              *)
C19_StaleWrite ==
  /\ [][ \A k \in DOMAIN Elements :
            ( /\ Orphan(k)
              /\ \/ manager' # manager
                 \/ \E id \in DOMAIN noteObj \ {Elements[k].note} :
                      id \notin DOMAIN noteObj' \/ noteObj'[id] # noteObj[id] )
            => ~Completes(k) ]_vars
  /\ [](\A i \in DOMAIN handed.notes : handed.notes[i].id \notin Removed)

(* A removed note's object carries a quote and an image, one of them      *)
(* still being fetched for it, beside a note of the collection that has   *)
(* neither.                                                               *)
C19_Witness ==
  /\ \E k \in DOMAIN Elements :
       /\ Orphan(k) /\ ~Attached(k)
       /\ noteObj[Elements[k].note].quote # NoQuote
       /\ noteObj[Elements[k].note].imageData # ""
  /\ \E id \in Range(manager) : noteObj[id].quote = NoQuote /\ noteObj[id].imageData = ""

(* ------------------------ deleting, in time --------------------------- *)
(* Notes are created, deleted and sorted; a fade animation that runs on   *)
(* an element of the board ends.                                          *)
NextFade ==
  \/ Bootstrap
  \/ Create({BoardOrigin + 1}, {BoardOrigin})
  \/ Delete
  \/ Faded
  \/ Sort

SpecFade ==
  /\ Init
  /\ [][NextFade]_vars
  /\ \A k \in 1..MaxElems : WF_vars(AnimationEnd(k))

(* The delete control of note id was clicked and its element fades.       *)
Fading(id) == \E i \in DOMAIN board : board[i].note = id /\ board[i].fading

(* C20: a note whose delete control has been clicked is removed from the  *)
(* collection later, whatever happens before the fade animation ends.     *)
C20_EventuallyRemoved ==
  \A id \in NoteIds : Fading(id) ~> (id \notin Range(manager))

(* A fading element leaves the board with its note still in the           *)
(* collection only by a sort.                                             *)
C20_OnlyBySort ==
  [][ (\E id \in Range(manager') : Fading(id) /\ ~Fading(id)') => Sort ]_vars

(* --------------------------- sorting, frame --------------------------- *)
(* A page with at most one stored note: notes are created, the one quote  *)
(* is fetched for them, and the board is sorted by either copy of the     *)
(* sort.                                                                  *)
NextSortFrame ==
  \/ Bootstrap
  \/ Create({BoardOrigin + 1}, {BoardOrigin})
  \/ AskQuote
  \/ QuoteLate
  \/ Sort
  \/ Sort2

SpecSortFrame == InitSmall /\ [][NextSortFrame]_vars

(* What a note is, apart from where it is.                                *)
Identity(n) ==
  [id |-> n.id, content |-> n.content, createdAt |-> n.createdAt,
   imageData |-> n.imageData, quote |-> n.quote]

(* C21: a sort leaves the set of note ids of the collection and every     *)
(* note's id, content, createdAt, imageData and quote as they were.       *)
C21_SortFrame ==
  [][ ( \/ Range(manager') # Range(manager)
        \/ \E id \in Range(manager) : Identity(noteObj'[id]) # Identity(noteObj[id]) )
      => ~(Sort \/ Sort2) ]_vars

(* Two notes stand in the stack a sort has made, the second one with a    *)
(* quote.                                                                 *)
C21_Witness ==
  /\ Len(manager) = 2
  /\ \A i \in DOMAIN board :
       /\ noteObj[board[i].note].x = startX
       /\ noteObj[board[i].note].y = offsetY + spacingY * (i - 1)
  /\ noteObj[board[2].note].quote # NoQuote

(* ---------------------------- moving, frame --------------------------- *)
(* A page with at most one stored note: notes are created, pressed, moved *)
(* and released, and the board is sorted, also while a note is held.      *)
NextMoveFrame ==
  \/ Bootstrap
  \/ Create({BoardOrigin + 1}, {BoardOrigin})
  \/ Sort
  \/ Press
  \/ Move
  \/ MouseUp

SpecMoveFrame == InitSmall /\ [][NextMoveFrame]_vars

(* The notes whose elements, on the board or replaced by a sort, are      *)
(* being dragged.                                                         *)
DraggedNotes == {Elements[k].note : k \in Dragging}

(* C22: a mouse move changes the position of dragged notes only: the      *)
(* collection, every field of every other note and every field but x and  *)
(* y of the dragged notes stay as they were, whether the armed listeners  *)
(* belong to elements of the board or to elements a sort has replaced.    *)
C22_MoveFrame ==
  [][ ( \/ manager' # manager
        \/ DOMAIN noteObj' # DOMAIN noteObj
        \/ \E id \in DOMAIN noteObj \cap DOMAIN noteObj' :
             \/ id \notin DraggedNotes /\ noteObj'[id] # noteObj[id]
             \/ Identity(noteObj'[id]) # Identity(noteObj[id]) )
      => ~Move ]_vars

(* A sort has replaced the element of a note that is held; the move       *)
(* listener of the replaced element has brought the note back onto the    *)
(* board while the other note stands in the stack.                        *)
C22_Witness ==
  /\ Len(manager) = 2
  /\ \E k \in Dragging :
       /\ ~Attached(k)
       /\ noteObj[Elements[k].note].x <= boardRect.width
       /\ \E id \in Range(manager) \ DraggedNotes :
            noteObj[id].x = startX /\ noteObj[id].y \in {offsetY, offsetY + spacingY}


====
